---- MODULE Spec2Model ----
(***************************************************************************)
(* Model of build_it.py: the Bedrock server image build pipeline.          *)
(*                                                                         *)
(* Strings are sequences of tokens.  A token is a chunk of text the code   *)
(* never looks inside ("bedrock-server-" stands for any text matched by    *)
(* bedrock[-_]?server[-_]?, ".zip" for the literal suffix, "1" for a       *)
(* digit, "\n" for a newline).  Python's None is the value None below,     *)
(* which no string of the model equals.                                    *)
(*                                                                         *)
(* Fault model: an external command either exits 0 or exits non-zero       *)
(* (subprocess.CalledProcessError under check=True); the HTTP calls fail   *)
(* or succeed; the credential file exists or not.  The executables are     *)
(* installed and the local file system does not fail.  Two further         *)
(* specifications add what the pipeline is not designed for: CrashSpec     *)
(* kills the process inside write_version_atomic, ConcSpec runs the record *)
(* step of a second, simultaneous invocation on the same two paths.        *)
(*                                                                         *)
(* Files are contents by path.  An open file handle follows its inode: a   *)
(* rename of the temporary file onto the state file moves the handles that *)
(* were open on the temporary file to the state file.                      *)
(***************************************************************************)
EXTENDS Integers, Sequences, FiniteSets, TLC

\* ------------------------------------------------------------------ bounds

MaxRuns == 2

\* ----------------------------------------------------------------- strings

None == <<"<None>">>
NL == "\n"
SP == " "
Whitespace == {SP, NL}
Digits == {"0", "1", "2"}
Unknown == <<"unknown">>

\* str.strip(): drop leading and trailing whitespace
RECURSIVE lstrip(_)
lstrip(s) ==
    IF s # <<>> /\ Head(s) \in Whitespace THEN lstrip(Tail(s)) ELSE s

RECURSIVE rstrip(_)
rstrip(s) ==
    IF s # <<>> /\ s[Len(s)] \in Whitespace
        THEN rstrip(SubSeq(s, 1, Len(s) - 1))
        ELSE s

strip(s) == rstrip(lstrip(s))

\* str.lower() on the tokens the force flag can hold
lower(s) ==
    [i \in 1..Len(s) |->
        CASE s[i] = "YES" -> "yes"
          [] s[i] = "True" -> "true"
          [] OTHER -> s[i]]

\* truthy(val): (val or "").strip().lower() in {"1","true","yes","y","on"}
truthy(val) ==
    LET v == IF val = None THEN <<>> ELSE val
    IN  strip(lower(v)) \in {<<"1">>, <<"true">>, <<"yes">>, <<"y">>, <<"on">>}

\* ------------------------------------------------------------ URL parsing

\* urlparse(url).path: what follows the scheme and host, up to the query
UrlPath(url) ==
    IF url = <<>> THEN <<>>
    ELSE LET rest == Tail(url)
             qs == {i \in 1..Len(rest) : rest[i] = "?"}
             stop == IF qs = {} THEN Len(rest)
                     ELSE (CHOOSE i \in qs : \A j \in qs : i <= j) - 1
         IN  SubSeq(rest, 1, stop)

\* PurePosixPath(path).name: the last path segment, trailing slashes dropped
RECURSIVE PathName(_)
PathName(path) ==
    IF path = <<>> THEN <<>>
    ELSE IF path[Len(path)] = "/" THEN PathName(SubSeq(path, 1, Len(path) - 1))
    ELSE LET slashes == {i \in 1..Len(path) : path[i] = "/"}
             last == IF slashes = {} THEN 0
                     ELSE CHOOSE i \in slashes : \A j \in slashes : j <= i
         IN  SubSeq(path, last + 1, Len(path))

\* \d+(?:\.\d+)+ : digits, then one or more groups of a dot and digits
IsVersionShape(c) ==
    /\ c # <<>>
    /\ \A i \in 1..Len(c) : c[i] \in Digits \cup {"."}
    /\ c[1] \in Digits
    /\ c[Len(c)] \in Digits
    /\ \E i \in 1..Len(c) : c[i] = "."
    /\ \A i \in 1..(Len(c) - 1) : ~(c[i] = "." /\ c[i + 1] = ".")

\* values of BEDROCK_VERSION_REGEX: unset (the default pattern), a custom
\* pattern bedrock-server-(.*)\.zip, a custom pattern without a capture
\* group, bedrock-server-.*\.zip, and a text that is not a regular expression
Patterns == {"default", "loose", "nogroup", "invalid"}

\* the match of the pattern that starts at position i of s, as the set of
\* its captured texts (empty: no match at i)
MatchAt(pat, s, i) ==
    IF s[i] # "bedrock-server-" THEN {}
    ELSE IF pat = "default"
        THEN LET j == IF i + 1 <= Len(s) /\ s[i + 1] = "v" THEN i + 2 ELSE i + 1
             IN  {SubSeq(s, j, k - 1) : k \in
                    {k \in j..Len(s) :
                        /\ s[k] = ".zip"
                        /\ IsVersionShape(SubSeq(s, j, k - 1))
                        /\ (k = Len(s) \/ s[k + 1] = "?")}}
        ELSE LET ends == {k \in (i + 1)..Len(s) : s[k] = ".zip"}
             IN  IF ends = {} THEN {}
                 ELSE LET k == CHOOSE k \in ends : \A l \in ends : l <= k
                      IN  {SubSeq(s, i + 1, k - 1)}

\* re.search(pattern, s): the captured text of the leftmost match, or None
re_search(pat, s) ==
    LET starts == {i \in 1..Len(s) : MatchAt(pat, s, i) # {}}
    IN  IF starts = {} THEN None
        ELSE LET i == CHOOSE i \in starts : \A j \in starts : i <= j
             IN  CHOOSE g \in MatchAt(pat, s, i) : TRUE

\* m.group(1): IndexError when the pattern has no group
Group1(pat, m) ==
    IF pat = "nogroup"
        THEN [exc |-> "IndexError", val |-> None]
        ELSE [exc |-> "none", val |-> m]

\* the try block of extract_version_from_url: the file name first, then the
\* whole URL; re.search raises re.error on an invalid pattern
ExtractBody(url, pat) ==
    IF pat = "invalid" THEN [exc |-> "re.error", val |-> None]
    ELSE LET name == PathName(UrlPath(url))
             m == re_search(pat, name)
             f == re_search(pat, url)
         IN  IF m # None THEN Group1(pat, m)
             ELSE IF f # None THEN Group1(pat, f)
             ELSE [exc |-> "none", val |-> None]

\* an except clause that names ValueError only
ParseExcCaught_ValueErrorOnly(e) == e = "ValueError"

\* the except clause of extract_version_from_url (except Exception)
ParseExcCaught(e) == TRUE

\* extract_version_from_url: the version or None, and the exception that
\* leaves the function, if any
extract_version_from_url(url, pat) ==
    LET b == ExtractBody(url, pat)
    IN  IF b.exc = "none" THEN [raised |-> "none", val |-> b.val]
        ELSE IF ParseExcCaught(b.exc) THEN [raised |-> "none", val |-> None]
        ELSE [raised |-> b.exc, val |-> None]

\* ------------------------------------------------------ bedrock links API

Host == "https://h"

Url(file) == <<Host, "/">> \o file

\* the download URLs the links API may report
URLs ==
    { Url(<<"bedrock-server-", "1", ".", "0", ".zip">>),
      Url(<<"bedrock-server-", "v", "1", ".", "1", ".zip">>),
      Url(<<"bedrock-server-", "1", ".", "0", ".zip", "?", "x">>),
      Url(<<"x", "?", "bedrock-server-", "1", ".", "1", ".zip">>),
      Url(<<"bedrock-server-", "1", ".zip">>),
      Url(<<"x", ".zip">>),
      <<>> }

\* what requests.get(api_url) can come back with: a transport or non-2xx
\* error, a body without a serverBedrockLinux entry, an entry without a
\* downloadUrl key, or an entry with a download URL
ApiResponses ==
    { [kind |-> k, url |-> <<>>] : k \in {"error", "nolink", "nokey"} }
        \cup { [kind |-> "link", url |-> u] : u \in URLs }

\* `extract_version_from_url(download_url) or "unknown"`
OrUnknown(v) == IF v = None \/ v = <<>> THEN Unknown ELSE v

\* get_latest_linux_bedrock_url: (download_url, version), or an exception
get_latest_linux_bedrock_url(resp, pat) ==
    IF resp.kind # "link"
        THEN [raised |-> TRUE, download_url |-> None, version |-> Unknown]
        ELSE LET e == extract_version_from_url(resp.url, pat)
             IN  IF e.raised # "none"
                    THEN [raised |-> TRUE, download_url |-> None,
                          version |-> Unknown]
                    ELSE [raised |-> FALSE,
                          download_url |-> resp.url,
                          version |-> OrUnknown(e.val)]

\* ------------------------------------------------------ version file helpers

\* read_prev_version without the .strip()
read_prev_version_NoStrip(file) == file

\* read_prev_version: the stripped content of the file, None when absent
read_prev_version(file) ==
    IF file = None THEN None ELSE strip(file)

\* the version written without its newline
VersionLine_NoNewline(v) == v

\* the text write_version_atomic writes to the temporary file
VersionLine(v) == v \o <<NL>>

\* ------------------------------------------------------------ decisions

\* the guard without the test for "unknown"
ShouldSkip_NoUnknownTest(v, p, force) ==
    p = v /\ ~force

\* the guard with the `not` of `not force_build` lost
ShouldSkip_ForcedOnly(v, p, force) ==
    v # Unknown /\ p = v /\ force

\* the guard without the force flag
ShouldSkip_IgnoreForce(v, p, force) ==
    v # Unknown /\ p = v

\* the version guard of main: skip the build if same and not forced
ShouldSkip(v, p, force) ==
    v # Unknown /\ p = v /\ ~force

\* exit status of the curl command line of download_with_curl; the command
\* line carries -s and -k but not -f/--fail, so an HTTP error status is not
\* turned into a process failure
CurlExit(res) ==
    IF res = "transport_error" THEN 1 ELSE 0

\* docker_logout without its try/except
LogoutRaises_NoHandler(rc) == TRUE

\* docker_logout: does a failed `docker logout` leave the function as an
\* exception?  (CalledProcessError is caught and only logged)
LogoutRaises(rc) == FALSE

\* the except clause naming the wrong exception class
DockerExcCaught_WrongClass(e) == e = "FileNotFoundError"

\* the except clause around login/build/push in main
DockerExcCaught(e) == e = "CalledProcessError"

\* git_add_commit_push called without the try/except
GitExcCaught_NoHandler(e) == FALSE

\* the except clause around git_add_commit_push in main
GitExcCaught(e) == e = "CalledProcessError"

\* the git stage run unconditionally
SyncCondition_Always(ok) == TRUE

\* `if built_ok:` before git_add_commit_push
SyncCondition(ok) == ok

\* the record step run unconditionally
RecordCondition_Always(ok, v) == TRUE

\* `if built_ok:` before write_version_atomic
RecordCondition(ok, v) == ok

\* the return code test inverted
NothingStaged_Inverted(rc) == rc # 0

\* git_add_commit_push: `git diff --cached --quiet` returning 0 means that
\* nothing is staged
NothingStaged(rc) == rc = 0

\* docker_build_and_push with its two lines swapped
FirstBuildStep_PushFirst == "push"

\* docker_build_and_push, entered after a successful login, starts with
\* docker build
FirstBuildStep == "build"

\* write_version_atomic writing the state file in place
WriteTarget_InPlace == "state"

\* write_version_atomic: the path write_text opens is the ".tmp" sibling
WriteTarget == "tmp"

\* the record step called without its try/except
RecordExcCaught_NoHandler(e) == FALSE

\* the except clause around write_version_atomic in main (except Exception)
RecordExcCaught(e) == TRUE

\* a byte the file system fills a gap with
NUL == "\\0"

\* content of a file after a handle at offset off wrote the token tok
WriteAt(content, off, tok) ==
    IF off < Len(content)
        THEN [content EXCEPT ![off + 1] = tok]
        ELSE content \o [i \in 1..(off - Len(content)) |-> NUL] \o <<tok>>

\* where an open handle points once the temporary file has been renamed
\* onto the state file
Moved(h) ==
    CASE h = "tmp" -> "state"
      [] h = "state" -> "orphan"
      [] OTHER -> h

Closed == [h |-> "closed", off |-> 0]

\* ------------------------------------------------------------------ state

VARIABLES
    stateFile,      \* content of BEDROCK_VERSION_FILE, None when absent
    tmpFile,        \* content of the ".tmp" sibling of the state file
    credExists,     \* does DOCKER_PASSWORD_FILE exist
    runs,           \* number of invocations of main() started so far
    pc,             \* position of the current invocation in main()
    force_build,    \* main: force_build
    download_url,   \* main: download_url
    version,        \* main: version
    prev,           \* main: prev
    built_ok,       \* main: built_ok
    exc,            \* exception in flight through the finally clause, or
                    \* the unhandled exception that ended main()
    calls,          \* external interactions of this invocation, in order
    warned,         \* except clauses of this invocation that logged
    fileAtStart,    \* history: stateFile when this invocation started
    initFile,       \* history: stateFile before the first invocation
    pushed,         \* history: versions of the runs whose push succeeded
    wr,             \* write_version_atomic: the open handle on the temporary
                    \* file and its offset
    peer,           \* record step of a second, simultaneous invocation
    password,       \* content of DOCKER_PASSWORD_FILE
    pattern         \* value of BEDROCK_VERSION_REGEX

vars == <<stateFile, tmpFile, credExists, runs, pc, force_build, download_url,
          version, prev, built_ok, exc, calls, warned, fileAtStart, initFile,
          pushed, wr, peer, password, pattern>>

files == <<stateFile, tmpFile>>
ctx == <<credExists, runs, fileAtStart, initFile, password, pattern>>
env == <<ctx, wr, peer>>
locals == <<force_build, download_url, version, prev, built_ok>>

V10 == <<"1", ".", "0">>
V11 == <<"1", ".", "1">>

\* contents the state file may have before the first invocation
InitFiles ==
    {None, VersionLine(V10), V11, VersionLine(Unknown), <<>>}

\* values of the FORCE_BUILD environment variable (None: unset)
ForceEnv == {None, <<"1">>, <<SP, "YES", NL>>, <<"0">>, <<>>}

Terminal == {"Skip", "Abort", "End", "Crashed", "Killed"}

PeerIdle == [pc |-> "idle", version |-> Unknown, h |-> "closed", off |-> 0]

\* main: username, image and output_zip, at their defaults
DOCKER_USERNAME == "jackclark1123"
DOCKER_IMAGE == "jackclark1123/bedrockserver"
BEDROCK_ZIP == "bedrock-server.zip"

\* contents of the credential file
Secret1 == <<"s3cr3t">>
Secret2 == <<"hunter2", NL>>
Passwords == {Secret1, Secret2}

\* docker_login with the password passed as an argument
LoginArgv_PasswordArg(username, pw) ==
    <<"docker", "login", "-u", username, "-p">> \o pw

\* docker_login: the argument vector of docker login
LoginArgv(username, pw) ==
    <<"docker", "login", "-u", username, "--password-stdin">>

\* the argument vector of each external process, as a flat sequence of
\* tokens; "-H ..." stands for the fixed header options of curl
ArgvOf(cmd, url, pw) ==
    CASE cmd = "curl" ->
            <<"curl", "-s", "-k", "-X", "GET", "-H ...">> \o url
                \o <<"-o", BEDROCK_ZIP>>
      [] cmd = "docker logout" -> <<"docker", "logout">>
      [] cmd = "docker login" -> LoginArgv(DOCKER_USERNAME, pw)
      [] cmd = "docker build" -> <<"docker", "build", "-t", DOCKER_IMAGE, ".">>
      [] cmd = "docker push" -> <<"docker", "push", DOCKER_IMAGE>>
      [] cmd = "git add" -> <<"git", "add", "-A">>
      [] cmd = "git diff" -> <<"git", "diff", "--cached", "--quiet">>
      [] cmd = "git commit" -> <<"git", "commit", "-m", "Auto-build-<now>">>
      [] cmd = "git push" -> <<"git", "push">>
      [] OTHER -> <<>>

\* what the process receives on standard input (input=password)
StdinOf(cmd, pw) ==
    IF cmd = "docker login" THEN pw ELSE <<>>

\* the commands started through run(), which echoes them
RunCmds ==
    {"curl", "docker logout", "docker login", "docker build", "docker push",
     "git add", "git commit", "git push"}

\* run: the line printed for a command, "$ " and the arguments
Echo(argv, input) == <<"$">> \o argv

EchoOf(cmd, url, pw) ==
    IF cmd \in RunCmds THEN Echo(ArgvOf(cmd, url, pw), StdinOf(cmd, pw)) ELSE <<>>

Call(cmd, rc, res) ==
    [cmd |-> cmd, rc |-> rc, res |-> res,
     argv |-> ArgvOf(cmd, download_url, password),
     stdin |-> StdinOf(cmd, password),
     echo |-> EchoOf(cmd, download_url, password)]

\* run(cmd): the external command is started and exits with status rc
Ran(cmd, rc) ==
    calls' = Append(calls, Call(cmd, rc, IF rc = 0 THEN "ok" ELSE "failed"))

InitBase ==
    /\ stateFile \in InitFiles
    /\ tmpFile = None
    /\ credExists \in BOOLEAN
    /\ runs = 1
    /\ pc = "resolve"
    /\ \E e \in ForceEnv : force_build = truthy(e)
    /\ download_url = None
    /\ version = Unknown
    /\ prev = None
    /\ built_ok = FALSE
    /\ exc = "none"
    /\ calls = <<>>
    /\ warned = {}
    /\ fileAtStart = stateFile
    /\ initFile = stateFile
    /\ pushed = {}
    /\ wr = Closed
    /\ peer = PeerIdle
    /\ pattern = "default"

Init ==
    /\ InitBase
    /\ password = Secret1

\* ------------------------------------------------------------------- main

\* main: discover latest URL + version; an exception of the resolver is
\* logged and leaves (None, "unknown")
main_resolve ==
    /\ pc = "resolve"
    /\ \E resp \in ApiResponses :
        LET r == get_latest_linux_bedrock_url(resp, pattern)
        IN  /\ download_url' = r.download_url
            /\ version' = r.version
            /\ warned' = IF r.raised THEN warned \cup {"api"} ELSE warned
            /\ calls' = Append(calls, Call("api_get", 0, resp.kind))
    /\ pc' = "guard"
    /\ UNCHANGED <<files, env, force_build, prev, built_ok, exc, pushed>>

\* main: read the previous version and apply the version guard
main_guard ==
    /\ pc = "guard"
    /\ prev' = read_prev_version(stateFile)
    /\ calls' = Append(calls, Call("read_state", 0, "ok"))
    /\ pc' = IF ShouldSkip(version, prev', force_build) THEN "Skip" ELSE "download"
    /\ UNCHANGED <<files, env, force_build, download_url, version, built_ok,
                   exc, warned, pushed>>

\* main: download the ZIP if there is a URL; a failed curl aborts the run.
\* The server answers with the archive, with an HTTP error status, or the
\* transfer fails.
download_with_curl ==
    /\ pc = "download"
    /\ IF download_url # None /\ download_url # <<>>
         THEN \E res \in {"ok", "http_error", "transport_error"} :
                /\ calls' = Append(calls, Call("curl", CurlExit(res), res))
                /\ IF CurlExit(res) # 0
                     THEN warned' = warned \cup {"download"} /\ pc' = "Abort"
                     ELSE warned' = warned /\ pc' = "logout1"
         ELSE /\ pc' = "logout1"
              /\ UNCHANGED <<calls, warned>>
    /\ UNCHANGED <<files, env, locals, exc, pushed>>

\* docker_logout, called before the try block
docker_logout_pre ==
    /\ pc = "logout1"
    /\ \E rc \in {0, 1} :
        /\ Ran("docker logout", rc)
        /\ IF rc # 0 /\ LogoutRaises(rc)
             THEN pc' = "Crashed" /\ exc' = "CalledProcessError" /\ warned' = warned
             ELSE /\ pc' = "login"
                  /\ exc' = exc
                  /\ warned' = IF rc # 0 THEN warned \cup {"logout"} ELSE warned
    /\ UNCHANGED <<files, env, locals, pushed>>

\* an exception e raised inside the try block of main: the except clause
\* logs it if it catches it, and the finally clause runs next
RaiseInDocker(e) ==
    /\ exc' = IF DockerExcCaught(e) THEN "none" ELSE e
    /\ warned' = IF DockerExcCaught(e) THEN warned \cup {"docker"} ELSE warned
    /\ pc' = "logout2"

\* docker_login
docker_login ==
    /\ pc = "login"
    /\ IF ~credExists
         THEN /\ RaiseInDocker("FileNotFoundError")
              /\ calls' = calls
         ELSE \E rc \in {0, 1} :
                /\ Ran("docker login", rc)
                /\ IF rc # 0
                     THEN RaiseInDocker("CalledProcessError")
                     ELSE pc' = FirstBuildStep /\ UNCHANGED <<exc, warned>>
    /\ UNCHANGED <<files, env, locals, pushed>>

\* docker_build_and_push: docker build
docker_build ==
    /\ pc = "build"
    /\ \E rc \in {0, 1} :
        /\ Ran("docker build", rc)
        /\ IF rc # 0
             THEN RaiseInDocker("CalledProcessError")
             ELSE pc' = "push" /\ UNCHANGED <<exc, warned>>
    /\ UNCHANGED <<files, env, locals, pushed>>

\* docker_build_and_push: docker push, then built_ok = True
docker_push ==
    /\ pc = "push"
    /\ \E rc \in {0, 1} :
        /\ Ran("docker push", rc)
        /\ IF rc # 0
             THEN /\ RaiseInDocker("CalledProcessError")
                  /\ UNCHANGED <<built_ok, pushed>>
             ELSE /\ built_ok' = TRUE
                  /\ pushed' = pushed \cup {version}
                  /\ pc' = "logout2"
                  /\ UNCHANGED <<exc, warned>>
    /\ UNCHANGED <<files, env, force_build, download_url, version, prev>>

\* where main goes once the git stage is over
AfterSync ==
    IF RecordCondition(built_ok, version) THEN "write_tmp" ELSE "End"

\* docker_logout in the finally clause; an exception in flight leaves main
docker_logout_finally ==
    /\ pc = "logout2"
    /\ \E rc \in {0, 1} :
        /\ Ran("docker logout", rc)
        /\ IF rc # 0 /\ LogoutRaises(rc)
             THEN pc' = "Crashed" /\ exc' = "CalledProcessError" /\ warned' = warned
             ELSE /\ exc' = exc
                  /\ warned' = IF rc # 0 THEN warned \cup {"logout"} ELSE warned
                  /\ pc' = IF exc # "none" THEN "Crashed"
                           ELSE IF SyncCondition(built_ok) THEN "git_add"
                           ELSE AfterSync
    /\ UNCHANGED <<files, env, locals, pushed>>

\* an exception e raised by git_add_commit_push: logged if the except clause
\* of main catches it, and main goes on to the record step
RaiseInGit(e) ==
    IF GitExcCaught(e)
        THEN warned' = warned \cup {"git"} /\ pc' = AfterSync /\ exc' = exc
        ELSE warned' = warned /\ pc' = "Crashed" /\ exc' = e

\* git_add_commit_push: git add -A
git_add ==
    /\ pc = "git_add"
    /\ \E rc \in {0, 1} :
        /\ Ran("git add", rc)
        /\ IF rc # 0
             THEN RaiseInGit("CalledProcessError")
             ELSE pc' = "git_diff" /\ UNCHANGED <<exc, warned>>
    /\ UNCHANGED <<files, env, locals, pushed>>

\* git_add_commit_push: git diff --cached --quiet, run without check; 0 is
\* nothing staged, 1 is staged changes, 128 is an error of git
git_diff ==
    /\ pc = "git_diff"
    /\ \E rc \in {0, 1, 128} :
        /\ calls' = Append(calls, Call("git diff", rc, "ok"))
        /\ pc' = IF NothingStaged(rc) THEN AfterSync ELSE "git_commit"
    /\ UNCHANGED <<files, env, locals, exc, warned, pushed>>

\* git_add_commit_push: git commit -m message
git_commit ==
    /\ pc = "git_commit"
    /\ \E rc \in {0, 1} :
        /\ Ran("git commit", rc)
        /\ IF rc # 0
             THEN RaiseInGit("CalledProcessError")
             ELSE pc' = "git_push" /\ UNCHANGED <<exc, warned>>
    /\ UNCHANGED <<files, env, locals, pushed>>

\* git_add_commit_push: git push
git_push ==
    /\ pc = "git_push"
    /\ \E rc \in {0, 1} :
        /\ Ran("git push", rc)
        /\ IF rc # 0
             THEN RaiseInGit("CalledProcessError")
             ELSE pc' = AfterSync /\ UNCHANGED <<exc, warned>>
    /\ UNCHANGED <<files, env, locals, pushed>>

\* write_version_atomic: tmp.write_text opens the temporary file for
\* writing, which creates it or truncates it
write_version_tmp ==
    /\ pc = "write_tmp"
    /\ IF WriteTarget = "tmp"
         THEN tmpFile' = <<>> /\ stateFile' = stateFile
         ELSE stateFile' = <<>> /\ tmpFile' = tmpFile
    /\ wr' = [h |-> WriteTarget, off |-> 0]
    /\ calls' = Append(calls, Call("write_tmp", 0, "ok"))
    /\ pc' = "writing"
    /\ UNCHANGED <<ctx, peer, locals, exc, warned, pushed>>

\* write_version_atomic: tmp.write_text writes version + "\n" through the
\* handle, one token per step, and closes the file after the last one
write_version_data ==
    /\ pc = "writing"
    /\ LET data == VersionLine(version)
           tok == data[wr.off + 1]
           last == wr.off + 1 = Len(data)
       IN  /\ tmpFile' = IF wr.h = "tmp" THEN WriteAt(tmpFile, wr.off, tok)
                         ELSE tmpFile
           /\ stateFile' = IF wr.h = "state" THEN WriteAt(stateFile, wr.off, tok)
                           ELSE stateFile
           /\ wr' = IF last THEN Closed ELSE [wr EXCEPT !.off = wr.off + 1]
           /\ pc' = IF last THEN "replace" ELSE "writing"
    /\ UNCHANGED <<ctx, peer, locals, exc, warned, calls, pushed>>

\* write_version_atomic: tmp.replace(version_file); FileNotFoundError when
\* the temporary file is gone, which main logs
write_version_replace ==
    /\ pc = "replace"
    /\ IF tmpFile = None
         THEN /\ calls' = Append(calls, Call("replace", 1, "failed"))
              /\ IF RecordExcCaught("FileNotFoundError")
                   THEN warned' = warned \cup {"write"} /\ pc' = "End" /\ exc' = exc
                   ELSE warned' = warned /\ pc' = "Crashed"
                            /\ exc' = "FileNotFoundError"
              /\ UNCHANGED <<files, peer>>
         ELSE /\ stateFile' = tmpFile
              /\ tmpFile' = None
              /\ peer' = [peer EXCEPT !.h = Moved(peer.h)]
              /\ calls' = Append(calls, Call("replace", 0, "ok"))
              /\ pc' = "End"
              /\ UNCHANGED <<exc, warned>>
    /\ UNCHANGED <<ctx, wr, locals, pushed>>

\* the next scheduled invocation of main(), once the previous one is over
main_start ==
    /\ pc \in Terminal
    /\ runs < MaxRuns
    /\ runs' = runs + 1
    /\ pc' = "resolve"
    /\ credExists' \in BOOLEAN
    /\ \E e \in ForceEnv : force_build' = truthy(e)
    /\ download_url' = None
    /\ version' = Unknown
    /\ prev' = None
    /\ built_ok' = FALSE
    /\ exc' = "none"
    /\ calls' = <<>>
    /\ warned' = {}
    /\ fileAtStart' = stateFile
    /\ wr' = Closed
    /\ UNCHANGED <<files, initFile, pushed, peer, password, pattern>>

Next ==
    \/ main_resolve
    \/ main_guard
    \/ download_with_curl
    \/ docker_logout_pre
    \/ docker_login
    \/ docker_build
    \/ docker_push
    \/ docker_logout_finally
    \/ git_add
    \/ git_diff
    \/ git_commit
    \/ git_push
    \/ write_version_tmp
    \/ write_version_data
    \/ write_version_replace
    \/ main_start

Spec == Init /\ [][Next]_vars

\* every external command returns and the interpreter runs on: a started
\* invocation keeps taking steps
FairSpec == Spec /\ WF_vars(Next)

\* ------------------------------------------------------ credential file

\* one invocation of main() for each content of the credential file
SecretInit ==
    /\ InitBase
    /\ password \in Passwords

NextSecret ==
    \/ main_resolve
    \/ main_guard
    \/ download_with_curl
    \/ docker_logout_pre
    \/ docker_login
    \/ docker_build
    \/ docker_push
    \/ docker_logout_finally
    \/ git_add
    \/ git_diff
    \/ git_commit
    \/ git_push
    \/ write_version_tmp
    \/ write_version_data
    \/ write_version_replace

SecretSpec == SecretInit /\ [][NextSecret]_vars

\* ------------------------------------------------------ version parsing

MaxUrlLen == 6

\* the tokens a download URL is made of after its host
UrlTokens == {"bedrock-server-", "v", "1", ".", ".zip", "?", "/"}

\* the example of the module docstring: bedrock-server-1.21.102.1.zip
ExampleUrl ==
    Url(<<"bedrock-server-", "1", ".", "2", "1", ".", "1", "0", "2", ".", "1",
          ".zip">>)

\* download URLs: a host followed by n tokens
ParseURLs(n) == {<<Host>> \o t : t \in [1..n -> UrlTokens]}

\* a download URL and a value of BEDROCK_VERSION_REGEX
ParseInit ==
    /\ \/ download_url = ExampleUrl
       \/ \E n \in 0..MaxUrlLen : download_url \in ParseURLs(n)
    /\ pattern \in Patterns
    /\ pc = "parse"
    /\ stateFile = None
    /\ tmpFile = None
    /\ credExists = TRUE
    /\ runs = 1
    /\ force_build = FALSE
    /\ version = Unknown
    /\ prev = None
    /\ built_ok = FALSE
    /\ exc = "none"
    /\ calls = <<>>
    /\ warned = {}
    /\ fileAtStart = None
    /\ initFile = None
    /\ pushed = {}
    /\ wr = Closed
    /\ peer = PeerIdle
    /\ password = Secret1

\* get_latest_linux_bedrock_url: version = extract_version_from_url(
\* download_url) or "unknown"
parse_version ==
    /\ pc = "parse"
    /\ LET e == extract_version_from_url(download_url, pattern)
       IN  /\ exc' = e.raised
           /\ version' = IF e.raised = "none" THEN OrUnknown(e.val) ELSE version
    /\ pc' = "parsed"
    /\ UNCHANGED <<files, ctx, wr, peer, force_build, download_url, prev,
                   built_ok, calls, warned, pushed>>

ParseSpec == ParseInit /\ [][parse_version]_vars

\* ------------------------------------------------------ abrupt termination

\* the process is killed inside write_version_atomic: before the temporary
\* file is opened, while it is written, or before the rename
interrupt ==
    /\ pc \in {"write_tmp", "writing", "replace"}
    /\ pc' = "Killed"
    /\ wr' = Closed
    /\ UNCHANGED <<files, ctx, peer, locals, exc, calls, warned, pushed>>

\* a single invocation of main() that may be killed
NextCrash ==
    \/ main_resolve
    \/ main_guard
    \/ download_with_curl
    \/ docker_logout_pre
    \/ docker_login
    \/ docker_build
    \/ docker_push
    \/ docker_logout_finally
    \/ git_add
    \/ git_diff
    \/ git_commit
    \/ git_push
    \/ write_version_tmp
    \/ write_version_data
    \/ write_version_replace
    \/ interrupt

CrashSpec == Init /\ [][NextCrash]_vars

\* ------------------------------------------- a second invocation's record

\* versions the second invocation may have published
PeerVersions == {V10, V11}

\* the second invocation, having published v, enters write_version_atomic
\* and opens the temporary file
peer_open ==
    /\ peer.pc = "idle"
    /\ \E v \in PeerVersions :
        peer' = [pc |-> "writing", version |-> v, h |-> "tmp", off |-> 0]
    /\ tmpFile' = <<>>
    /\ UNCHANGED <<stateFile, ctx, wr, locals, pc, exc, calls, warned, pushed>>

\* the second invocation writes its version line through its handle
peer_write ==
    /\ peer.pc = "writing"
    /\ LET data == VersionLine(peer.version)
           tok == data[peer.off + 1]
           last == peer.off + 1 = Len(data)
       IN  /\ tmpFile' = IF peer.h = "tmp" THEN WriteAt(tmpFile, peer.off, tok)
                         ELSE tmpFile
           /\ stateFile' = IF peer.h = "state" THEN WriteAt(stateFile, peer.off, tok)
                           ELSE stateFile
           /\ peer' = IF last
                        THEN [peer EXCEPT !.pc = "replace", !.h = "closed", !.off = 0]
                        ELSE [peer EXCEPT !.off = peer.off + 1]
    /\ UNCHANGED <<ctx, wr, locals, pc, exc, calls, warned, pushed>>

\* the second invocation renames the temporary file onto the state file, or
\* fails because it is gone
peer_replace ==
    /\ peer.pc = "replace"
    /\ IF tmpFile = None
         THEN /\ peer' = [peer EXCEPT !.pc = "failed"]
              /\ UNCHANGED <<files, wr>>
         ELSE /\ stateFile' = tmpFile
              /\ tmpFile' = None
              /\ wr' = [wr EXCEPT !.h = Moved(wr.h)]
              /\ peer' = [peer EXCEPT !.pc = "done"]
    /\ UNCHANGED <<ctx, locals, pc, exc, calls, warned, pushed>>

\* one invocation of main() next to the record step of a second one
NextConc ==
    \/ main_resolve
    \/ main_guard
    \/ download_with_curl
    \/ docker_logout_pre
    \/ docker_login
    \/ docker_build
    \/ docker_push
    \/ docker_logout_finally
    \/ git_add
    \/ git_diff
    \/ git_commit
    \/ git_push
    \/ write_version_tmp
    \/ write_version_data
    \/ write_version_replace
    \/ peer_open
    \/ peer_write
    \/ peer_replace

\* both invocations run with the credential file in place, on a fresh
\* working directory
ConcInit ==
    /\ Init
    /\ credExists
    /\ stateFile = None

ConcSpec == ConcInit /\ [][NextConc]_vars

\* ------------------------------------------------------------- vocabulary

Cmds(cs) == {cs[i].cmd : i \in 1..Len(cs)}

Count(cs, c) == Cardinality({i \in 1..Len(cs) : cs[i].cmd = c})

\* the command c was run and exited 0
Succeeded(cs, c) == \E i \in 1..Len(cs) : cs[i].cmd = c /\ cs[i].rc = 0

\* the command c was run and exited non-zero
Failed(cs, c) == \E i \in 1..Len(cs) : cs[i].cmd = c /\ cs[i].rc # 0

DockerCmds == {"docker logout", "docker login", "docker build", "docker push"}
GitCmds == {"git add", "git diff", "git commit", "git push"}
WriteCmds == {"write_tmp", "replace"}

Done == pc \in Terminal

TypeOK ==
    /\ pc \in Terminal \cup {"resolve", "guard", "download", "logout1", "login",
                             "build", "push", "logout2", "git_add", "git_diff",
                             "git_commit", "git_push", "write_tmp", "writing",
                             "replace"}
    /\ runs \in 1..MaxRuns
    /\ built_ok \in BOOLEAN
    /\ force_build \in BOOLEAN
    /\ exc \in {"none", "FileNotFoundError", "CalledProcessError"}

\* the guard has been evaluated in this invocation
Guarded == pc \notin {"resolve", "guard"}

\* the publish stage did not succeed: the credential file was missing when
\* login was reached, or login, build or push exited non-zero
LoginReached ==
    pc \in {"build", "push", "logout2", "git_add", "git_diff", "git_commit",
            "git_push", "write_tmp", "writing", "replace", "End", "Crashed",
            "Killed"}

PublishFailed ==
    \/ LoginReached /\ ~credExists
    \/ Failed(calls, "docker login")
    \/ Failed(calls, "docker build")
    \/ Failed(calls, "docker push")

\* login, build and push were run in this order and all exited 0
PublishedInOrder(cs) ==
    \E i, j, k \in 1..Len(cs) :
        /\ i < j /\ j < k
        /\ cs[i] = Call("docker login", 0, "ok")
        /\ cs[j] = Call("docker build", 0, "ok")
        /\ cs[k] = Call("docker push", 0, "ok")

\* ================================================================== claims

\* C1: when the resolved version is known, the state file read back holds
\* that version and the force flag is false, the run ends at Skip having run
\* no curl, no docker command, no git command and no state-file write.
C1_PureSkip ==
    (Guarded /\ version # Unknown /\ prev = version /\ ~force_build) =>
        /\ pc = "Skip"
        /\ Cmds(calls) \cap (DockerCmds \cup GitCmds \cup WriteCmds \cup {"curl"}) = {}
        /\ files = <<fileAtStart, None>>
        /\ exc = "none"

C1_Witness ==
    /\ pc = "Skip"
    /\ version = V10
    /\ prev = version
    /\ ~force_build
    /\ stateFile = VersionLine(V10)

\* C2 as stated: a finished run whose version differs from the recorded one,
\* or that is forced, has run curl, docker logout, login, build and push.
C2_Original ==
    (Done /\ (version # prev \/ force_build)) =>
        {"curl", "docker logout", "docker login", "docker build",
         "docker push"} \subseteq Cmds(calls)

\* C2 (amended): when the version differs from the recorded one or the run
\* is forced, the run is never skipped; it runs curl when a download URL was
\* resolved; unless curl exits non-zero it enters the publish stage, where
\* docker logout is run, docker login is run when the credential file
\* exists, docker build when login succeeded and docker push when build
\* succeeded.
C2_Proceeds ==
    (Guarded /\ (version # prev \/ force_build)) =>
        /\ pc # "Skip"
        /\ Done =>
            /\ (download_url \notin {None, <<>>}) => "curl" \in Cmds(calls)
            /\ ~Failed(calls, "curl") =>
                /\ "docker logout" \in Cmds(calls)
                /\ credExists => "docker login" \in Cmds(calls)
            /\ Succeeded(calls, "docker login") => "docker build" \in Cmds(calls)
            /\ Succeeded(calls, "docker build") => "docker push" \in Cmds(calls)

C2_Witness ==
    /\ pc = "End"
    /\ force_build
    /\ prev = version
    /\ version = V11
    /\ "curl" \in Cmds(calls)
    /\ Succeeded(calls, "docker push")

\* C3: the state file (and its temporary sibling) changes only in a run in
\* which docker login, docker build and docker push have all succeeded
\* before; so the state file always holds either its initial content or the
\* version line of a run whose push succeeded.
C3_WriteOnlyAfterPublish ==
    /\ [](\/ stateFile = initFile
          \/ \E v \in pushed : stateFile = VersionLine(v))
    /\ [][files' # files => PublishedInOrder(calls) /\ built_ok]_vars

C3_Witness ==
    /\ pc = "End"
    /\ stateFile # fileAtStart
    /\ stateFile = VersionLine(V10)
    /\ PublishedInOrder(calls)

\* C4: a run whose resolved version is "unknown" leaves the state file
\* unchanged.
C4_UnknownNeverRecorded ==
    version = Unknown => stateFile = fileAtStart

\* C5: when the download fails, by a transport failure or by an HTTP error
\* status, the run performs no docker command, no git command and no
\* state-file write.
C5_DownloadFailureAborts ==
    (\E i \in 1..Len(calls) : calls[i].cmd = "curl" /\ calls[i].res # "ok") =>
        /\ Cmds(calls) \cap (DockerCmds \cup GitCmds \cup WriteCmds) = {}
        /\ files = <<fileAtStart, None>>

\* the publish stage was entered in this invocation
PublishReached == pc \notin {"resolve", "guard", "download", "logout1", "Skip", "Abort"}

\* where main stands after the finally clause, whatever the final
\* docker logout returned
AfterFinally ==
    IF exc # "none" THEN "Crashed"
    ELSE IF built_ok THEN "git_add"
    ELSE "End"

\* C6: a run that reaches the publish stage runs docker logout exactly
\* twice, once before login and once after login/build/push, whatever the
\* outcomes of the first logout, the credential check, login, build and
\* push; the exit status of either logout does not influence the next step.
C6_LogoutTwice ==
    /\ [](Count(calls, "docker logout") <= 2)
    /\ []((Done /\ PublishReached) =>
            /\ Count(calls, "docker logout") = 2
            /\ calls[Len(calls)].cmd \in DockerCmds =>
                    calls[Len(calls)].cmd = "docker logout"
            /\ \A i \in 1..Len(calls) :
                calls[i].cmd \in {"docker login", "docker build", "docker push"} =>
                    /\ \E j \in 1..(i - 1) : calls[j].cmd = "docker logout"
                    /\ \E k \in (i + 1)..Len(calls) : calls[k].cmd = "docker logout")
    /\ [][pc = "logout1" => pc' = "login" /\ exc' = exc]_vars
    /\ [][pc = "logout2" => pc' = AfterFinally /\ exc' = exc /\ built_ok' = built_ok]_vars

C6_Witness ==
    /\ pc = "End"
    /\ built_ok
    /\ Count(calls, "docker logout") = 2
    /\ \A i \in 1..Len(calls) : calls[i].cmd = "docker logout" => calls[i].rc # 0

\* C7: when the credential file is missing or docker login, build or push
\* fails, no git command is run and the state file is not written, and the
\* run ends right after the final docker logout.
C7_FailedPublishNoSyncNoRecord ==
    PublishFailed =>
        /\ ~built_ok
        /\ Cmds(calls) \cap (GitCmds \cup WriteCmds) = {}
        /\ files = <<fileAtStart, None>>
        /\ pc \in {"logout2", "End", "Crashed"}
        /\ Done =>
            /\ Count(calls, "docker logout") = 2
            /\ calls[Len(calls)].cmd = "docker logout"

C7_Witness ==
    /\ pc = "End"
    /\ Failed(calls, "docker build")
    /\ calls[Len(calls)].cmd = "docker logout"

\* C8 as stated: no run ends with an unhandled exception, and every publish
\* failure, a missing credential file included, is logged by the except
\* clause and leaves the publish marked unsuccessful.
C8_Original ==
    /\ pc # "Crashed"
    /\ (Done /\ PublishFailed) => ("docker" \in warned /\ ~built_ok /\ pc = "End")

\* C8 (amended): every run terminates: by a normal return at Skip, at the
\* download abort or at End, or, exactly when the credential file is missing
\* at login, with an unhandled FileNotFoundError after the final docker
\* logout.  A docker login, build or push that exits non-zero is caught and
\* logged, leaves the publish marked unsuccessful, and the run goes on to End.
C8_Terminates ==
    /\ [](Done =>
            /\ pc = "Crashed" <=> (PublishReached /\ ~credExists)
            /\ pc = "Crashed" =>
                /\ exc = "FileNotFoundError"
                /\ ~built_ok
                /\ calls[Len(calls)].cmd = "docker logout"
            /\ pc # "Crashed" => exc = "none"
            /\ (\E c \in {"docker login", "docker build", "docker push"} :
                    Failed(calls, c)) =>
                /\ pc = "End"
                /\ "docker" \in warned
                /\ ~built_ok)
    /\ (~Done ~> Done)

C8_Witness ==
    /\ pc = "End"
    /\ Failed(calls, "docker login")
    /\ "docker" \in warned
    /\ ~built_ok

\* C9: in a run whose publish succeeded, a git add, git commit or git push
\* that fails is only logged: the run performs the record step, the state
\* file then holds the line of the resolved version, and the run returns
\* normally at End.
C9_SyncFailureNonFatal ==
    (Done /\ Succeeded(calls, "docker push")) =>
        /\ pc = "End"
        /\ exc = "none"
        /\ (\E c \in {"git add", "git commit", "git push"} : Failed(calls, c))
                => "git" \in warned
        /\ WriteCmds \subseteq Cmds(calls)
        /\ files = <<VersionLine(version), None>>

C9_Witness ==
    /\ pc = "End"
    /\ Failed(calls, "git push")
    /\ version = V10
    /\ fileAtStart = None
    /\ stateFile = VersionLine(V10)

\* the staged-diff check of this invocation returned rc
DiffReturned(rc) ==
    \E i \in 1..Len(calls) : calls[i] = Call("git diff", rc, "ok")

\* C10: when the staged-diff check reports nothing staged, git commit and
\* git push are never run and nothing is logged as a git failure; when it
\* reports staged changes git commit is run, and git push is run only after
\* git commit succeeded.
C10_NoCommitWithoutStagedChanges ==
    /\ DiffReturned(0) =>
        /\ Cmds(calls) \cap {"git commit", "git push"} = {}
        /\ "git" \notin warned
        /\ pc \in {"write_tmp", "writing", "replace", "End"}
    /\ (DiffReturned(1) /\ pc # "git_commit") => "git commit" \in Cmds(calls)
    /\ \A i \in 1..Len(calls) :
        calls[i].cmd = "git push" =>
            /\ i > 1
            /\ calls[i - 1] = Call("git commit", 0, "ok")
            /\ ~DiffReturned(0)
    /\ \A i \in 1..Len(calls) :
        calls[i].cmd = "git commit" => (i > 1 /\ calls[i - 1].cmd = "git diff")

C10_Witness ==
    /\ pc = "End"
    /\ DiffReturned(0)
    /\ Succeeded(calls, "git add")
    /\ stateFile = VersionLine(version)

\* a run with staged changes, committed and pushed
C10_WitnessStaged ==
    /\ pc = "End"
    /\ DiffReturned(1)
    /\ Succeeded(calls, "git push")

\* the links API query of this invocation failed
ApiFailed ==
    \E i \in 1..Len(calls) :
        calls[i].cmd = "api_get" /\ calls[i].res \in {"error", "nolink"}

\* C12: when the API query fails (request error, or no entry of the
\* expected download type) the version is "unknown", the guard does not skip
\* whatever the state file holds and whatever the force flag is, nothing is
\* downloaded and the publish stage is entered.
C12_ResolverFailureDegrades ==
    ApiFailed =>
        /\ "api" \in warned
        /\ version = Unknown
        /\ download_url = None
        /\ pc \notin {"Skip", "Abort"}
        /\ "curl" \notin Cmds(calls)
        /\ Done => "docker logout" \in Cmds(calls)
        /\ (Done /\ credExists) => "docker login" \in Cmds(calls)

C12_Witness ==
    /\ ApiFailed
    /\ fileAtStart = VersionLine(Unknown)
    /\ ~force_build
    /\ pc = "End"
    /\ Succeeded(calls, "docker build")

\* the archive download of this invocation succeeded
Downloaded ==
    \E i \in 1..Len(calls) : calls[i] = Call("curl", 0, "ok")

\* C13: a run that starts without a state file, resolves a known version v
\* and whose download, login, build and push all succeed ends with the state
\* file holding exactly v followed by one newline, whatever git did.
C13_EndToEnd ==
    (/\ Done
     /\ fileAtStart = None
     /\ version # Unknown
     /\ Downloaded
     /\ PublishedInOrder(calls)) =>
        /\ pc = "End"
        /\ stateFile # None
        /\ stateFile = version \o <<NL>>
        /\ \A i \in 1..Len(version) : version[i] # NL

C13_Witness ==
    /\ pc = "End"
    /\ fileAtStart = None
    /\ version = V10
    /\ Downloaded
    /\ Failed(calls, "git add")
    /\ stateFile = <<"1", ".", "0", NL>>

\* position of the i-th interaction in the pipeline order; the first
\* docker logout is the pre-login one, a later one the cleanup
Stage(cs, i) ==
    LET c == cs[i].cmd
    IN  CASE c = "api_get" -> 1
          [] c = "read_state" -> 2
          [] c = "curl" -> 3
          [] c = "docker logout" ->
                IF \E j \in 1..(i - 1) : cs[j].cmd = "docker logout" THEN 8 ELSE 4
          [] c = "docker login" -> 5
          [] c = "docker build" -> 6
          [] c = "docker push" -> 7
          [] c = "git add" -> 9
          [] c = "git diff" -> 10
          [] c = "git commit" -> 11
          [] c = "git push" -> 12
          [] c = "write_tmp" -> 13
          [] c = "replace" -> 14

\* C16: within one run the external actions occur in the order API query,
\* state-file read, download, logout, login, build, push, logout, git
\* add/diff/commit/push, state-file write, each at most once; docker build
\* is run only after login succeeded, docker push only after build
\* succeeded, and the state file is written only after the git stage ran.
C16_StageOrder ==
    /\ \A i, j \in 1..Len(calls) : i < j => Stage(calls, i) < Stage(calls, j)
    /\ \A i \in 1..Len(calls) :
        /\ calls[i].cmd = "docker build" =>
                \E j \in 1..(i - 1) : calls[j] = Call("docker login", 0, "ok")
        /\ calls[i].cmd = "docker push" =>
                \E j \in 1..(i - 1) : calls[j] = Call("docker build", 0, "ok")
        /\ calls[i].cmd \in WriteCmds =>
                \E j \in 1..(i - 1) : calls[j].cmd = "git add"
    /\ stateFile # fileAtStart => "git add" \in Cmds(calls)

C16_Witness ==
    /\ pc = "End"
    /\ Len(calls) = 14
    /\ Cmds(calls) = DockerCmds \cup GitCmds \cup WriteCmds
                        \cup {"api_get", "read_state", "curl"}

\* C17: the line a run records for a known version v is read back by
\* read_prev_version as v; a later run that finds this line, resolves the
\* same v and is not forced ends at Skip, publishes nothing and leaves the
\* state file unchanged.
C17_RerunIdempotent ==
    /\ (pc = "End" /\ "replace" \in Cmds(calls) /\ version # Unknown) =>
            read_prev_version(stateFile) = version
    /\ (/\ runs > 1
        /\ Guarded
        /\ version # Unknown
        /\ version \in pushed
        /\ fileAtStart = version \o <<NL>>
        /\ ~force_build) =>
            /\ pc = "Skip"
            /\ prev = version
            /\ Cmds(calls) \subseteq {"api_get", "read_state"}
            /\ files = <<fileAtStart, None>>

C17_Witness ==
    /\ runs = 2
    /\ pc = "Skip"
    /\ initFile = None
    /\ version = V11
    /\ version \in pushed
    /\ ~force_build
    /\ stateFile = VersionLine(V11)

\* C11: whenever the process is killed inside write_version_atomic (before
\* the temporary file is opened, while it is written, or between the write
\* and the rename) the state file still holds its complete prior content or
\* is still absent; at every moment the state file holds either that prior
\* content or the complete line of the new version, and it changes only by
\* the rename.
C11_AtomicUnderCrash ==
    /\ stateFile \in {fileAtStart, version \o <<NL>>}
    /\ pc \in {"write_tmp", "writing", "replace", "Killed"} =>
            stateFile = fileAtStart
    /\ stateFile # fileAtStart => (pc = "End" /\ Succeeded(calls, "replace"))
    /\ (pc = "End" /\ "replace" \in Cmds(calls)) =>
            files = <<version \o <<NL>>, None>>

\* killed while the temporary file is half written, with a prior state file
C11_Witness ==
    /\ pc = "Killed"
    /\ fileAtStart = VersionLine(V10)
    /\ version = V11
    /\ tmpFile = <<"1", ".">>
    /\ stateFile = fileAtStart

\* killed between the write of the temporary file and the rename
C11_WitnessBeforeRename ==
    /\ pc = "Killed"
    /\ tmpFile = VersionLine(version)
    /\ stateFile = None

\* C18: with a second invocation recording at the same time, a record step
\* fails only because the other invocation renamed the temporary file away;
\* the failure of main's record step is only logged; and the state file can
\* differ from both its prior content and the run's own version line only
\* when the second invocation took part.  (The race itself is the witness.)
C18_RaceOnRecord ==
    /\ Failed(calls, "replace") =>
        /\ pc = "End"
        /\ "write" \in warned
        /\ peer.pc = "done"
    /\ peer.pc = "failed" => Succeeded(calls, "replace")
    /\ peer.pc = "idle" => stateFile \in {fileAtStart, version \o <<NL>>}

\* main's rename succeeded, yet the state file holds the version of the
\* second invocation, whose own record step failed for lack of the
\* temporary file
C18_Witness ==
    /\ pc = "End"
    /\ Succeeded(calls, "replace")
    /\ version = V10
    /\ peer.pc = "failed"
    /\ peer.version = V11
    /\ stateFile = VersionLine(V11)

\* main's record step fails because the second invocation renamed the
\* temporary file away
C18_WitnessMainFails ==
    /\ pc = "End"
    /\ Failed(calls, "replace")
    /\ peer.pc = "done"

\* a rename installs a file the other invocation has just truncated
C18_WitnessHalfWritten ==
    /\ Succeeded(calls, "replace")
    /\ stateFile = <<>>
    /\ peer.h = "state"

\* the tokens of the secret, whitespace aside
SecretTokens == {password[k] : k \in 1..Len(password)} \ Whitespace

Tokens(q) == {q[k] : k \in 1..Len(q)}

\* C14: the argument vector and the echoed command line of every external
\* process are what they would be for any other content of the credential
\* file, and contain no token of the secret; the secret is the standard
\* input of docker login and of no other process.
C14_SecretOnlyOnStdin ==
    \A i \in 1..Len(calls) :
        /\ \A p \in Passwords :
            /\ calls[i].argv = ArgvOf(calls[i].cmd, download_url, p)
            /\ calls[i].echo =
                    (IF calls[i].cmd \in RunCmds THEN <<"$">> \o calls[i].argv
                     ELSE <<>>)
        /\ Tokens(calls[i].argv) \cap SecretTokens = {}
        /\ Tokens(calls[i].echo) \cap SecretTokens = {}
        /\ calls[i].stdin = (IF calls[i].cmd = "docker login" THEN password ELSE <<>>)

C14_Witness ==
    /\ pc = "End"
    /\ password = Secret2
    /\ \E i \in 1..Len(calls) :
        /\ calls[i].cmd = "docker login"
        /\ calls[i].rc = 0
        /\ calls[i].stdin = Secret2
        /\ calls[i].argv = <<"docker", "login", "-u", "jackclark1123", "--password-stdin">>
    /\ Succeeded(calls, "docker push")

\* the last path segment of the URL being parsed
UrlName == PathName(UrlPath(download_url))

\* what the default pattern captures in s, stated on the text: a version
\* (digits and dots) that directly follows bedrock-server- or
\* bedrock-server-v and is directly followed by .zip at the end of s or
\* before a query
DefaultCaptures(s) ==
    {SubSeq(s, m[1], m[2] - 1) : m \in
        {m \in (1..Len(s)) \X (1..Len(s)) :
            /\ 1 < m[1] /\ m[1] < m[2]
            /\ s[m[2]] = ".zip"
            /\ (m[2] = Len(s) \/ s[m[2] + 1] = "?")
            /\ IsVersionShape(SubSeq(s, m[1], m[2] - 1))
            /\ \/ s[m[1] - 1] = "bedrock-server-"
               \/ /\ m[1] > 2
                  /\ s[m[1] - 1] = "v"
                  /\ s[m[1] - 2] = "bedrock-server-"}}

\* what bedrock-server-(.*)\.zip captures in s: the text between the first
\* bedrock-server- and the last .zip after it
LooseCaptures(s) ==
    {SubSeq(s, m[1] + 1, m[2] - 1) : m \in
        {m \in (1..Len(s)) \X (1..Len(s)) :
            /\ m[1] < m[2]
            /\ s[m[1]] = "bedrock-server-"
            /\ \A i \in 1..(m[1] - 1) : s[i] # "bedrock-server-"
            /\ s[m[2]] = ".zip"
            /\ \A k \in (m[2] + 1)..Len(s) : s[k] # ".zip"}}

\* the captures of a pattern with one capture group
Captures(pat, s) ==
    CASE pat = "default" -> DefaultCaptures(s)
      [] pat = "loose" -> LooseCaptures(s)
      [] OTHER -> {}

\* C15: for every download URL and every value of BEDROCK_VERSION_REGEX
\* (an invalid pattern and a pattern without a group included) version
\* extraction raises nothing; when the pattern matches the last path segment
\* extraction yields the captured group, which is the resolved version
\* unless it is empty; when the pattern matches neither the last path
\* segment nor the URL the resolved version is "unknown".
C15_ParsingTotal ==
    pc = "parsed" =>
        LET r == extract_version_from_url(download_url, pattern)
        IN  /\ exc = "none"
            /\ r.raised = "none"
            /\ Cardinality(Captures(pattern, UrlName)) <= 1
            /\ \A c \in Captures(pattern, UrlName) :
                /\ r.val = c
                /\ version = (IF c = <<>> THEN Unknown ELSE c)
            /\ (Captures(pattern, UrlName) = {}
                    /\ Captures(pattern, download_url) = {}) =>
                /\ r.val = None
                /\ version = Unknown
            /\ version # <<>>
            /\ version # None

\* bedrock-server-1.21.102.1.zip yields 1.21.102.1
C15_Witness ==
    /\ pc = "parsed"
    /\ pattern = "default"
    /\ download_url = ExampleUrl
    /\ version = <<"1", ".", "2", "1", ".", "1", "0", "2", ".", "1">>

\* a file name the default pattern does not match
C15_WitnessNoMatch ==
    /\ pc = "parsed"
    /\ pattern = "default"
    /\ download_url = <<Host, "/", "bedrock-server-", "1", ".zip">>
    /\ version = Unknown

\* a pattern that is not a regular expression
C15_WitnessInvalid ==
    /\ pc = "parsed"
    /\ pattern = "invalid"
    /\ download_url = ExampleUrl
    /\ version = Unknown
    /\ exc = "none"

====
